---- MODULE Spec2Model ----
(***************************************************************************)
(* A model of calibrimbore's `sauron` class (src/calibrimbore/             *)
(* calibrimbore.py): the constructor's fit pipeline, the composite model   *)
(* evaluator, and the target-source estimator.                             *)
(*                                                                         *)
(* Numbers.  Magnitudes are integers in units of 0.025 mag, one hundredth  *)
(* of a decade of flux, so that mag2flux(m) = 10^(2/5*(25-m)) is the exact *)
(* power of ten 10^((ZP-m)/100) for the catalogue magnitudes, which are    *)
(* whole decades.  A coefficient is a decimal <<m, e>> = m * 10^e.  A      *)
(* composite magnitude -2.5*log10(raw)+25 is kept exactly as the record    *)
(* [i, m]: the number i - 100*log10(M), M the integer whose decimal digits *)
(* (low order first) are m; m = <<1>> is an exact magnitude, m = <<0>> is  *)
(* log10(0) (infinite) and m = <<>> is not-a-number.                       *)
(***************************************************************************)
EXTENDS Integers, Sequences, FiniteSets, TLC

\* ------------------------------------------------------------- bounds
\* number of calibration spectra (CALSPEC stars) of the model
NCal == 3
\* objective evaluations the optimizer makes in one pass of fit_comp
MaxEvals == 2
\* samples one sigma_clip call rejects at most
MaxClip == 1
\* stars of a target catalogue handed to estimate_mag
NStars == 2

\* ------------------------------------------------- program constants
\* mag2flux's zeropoint zp=25 mag, in units of 0.025 mag
ZP == 1000
\* the degenerate upper bound 1e-10 of an inactive band: its decimal exponent
EpsExp == -10
\* filter_overlap's significance threshold 0.05, in percent
OverlapPct == 5
\* get_extinctions' radius .2*60**2 = 720, compared with degrees
SizeArcsec == 720

\* ---------------------------------------------------------- decimals
RECURSIVE Norm(_, _)
\* the decimal m * 10^e with trailing zeros of m moved into e
Norm(m, e) ==
    IF m = 0 THEN <<0, 0>>
    ELSE IF m % 10 = 0 THEN Norm(m \div 10, e + 1)
    ELSE <<m, e>>

RECURSIVE Pow10(_)
Pow10(n) == IF n <= 0 THEN 1 ELSE 10 * Pow10(n - 1)

RECURSIVE NDigits(_)
NDigits(m) == IF m < 10 THEN 1 ELSE 1 + NDigits(m \div 10)

Min(a, b) == IF a < b THEN a ELSE b
Max(a, b) == IF a < b THEN b ELSE a

\* a < b for positive decimals: by order of magnitude, then by mantissa
PosLess(a, b) ==
    LET oa == NDigits(a[1]) + a[2]
        ob == NDigits(b[1]) + b[2]
        e  == Min(a[2], b[2])
    IN  IF oa # ob THEN oa < ob
        ELSE a[1] * Pow10(a[2] - e) < b[1] * Pow10(b[2] - e)

\* a < b for decimals
DecLess(a, b) ==
    CASE a[1] < 0 /\ b[1] >= 0 -> TRUE
      [] a[1] >= 0 /\ b[1] < 0 -> FALSE
      [] a[1] = 0 -> b[1] > 0
      [] b[1] = 0 -> FALSE
      [] a[1] > 0 -> PosLess(a, b)
      [] OTHER -> PosLess(<<-b[1], b[2]>>, <<-a[1], a[2]>>)

DecLeq(a, b) == a = b \/ DecLess(a, b)

DecMul(a, b) == Norm(a[1] * b[1], a[2] + b[2])

Zero == <<0, 0>>
\* 1e-10
Eps == <<1, EpsExp>>

\* -------------------------------------------------- exact decimal sums
RECURSIVE SumOver(_, _)
\* sum of the mantissas of the terms (a sequence of decimals) of exponent e
SumOver(terms, e) ==
    IF terms = <<>> THEN 0
    ELSE (IF Head(terms)[1] # 0 /\ Head(terms)[2] = e THEN Head(terms)[1] ELSE 0)
         + SumOver(Tail(terms), e)

RECURSIVE Carry(_, _, _, _, _)
\* the digits, low order first, of sum(terms) / 10^lo, from column k on
Carry(terms, lo, hi, k, c) ==
    IF lo + k > hi /\ c = 0 THEN <<>>
    ELSE LET v == (IF lo + k <= hi THEN SumOver(terms, lo + k) ELSE 0) + c
         IN  <<v % 10>> \o Carry(terms, lo, hi, k + 1, v \div 10)

RECURSIVE StripLow(_)
\* a digit string without its low-order zeros, and how many were dropped
StripLow(d) ==
    IF d = <<>> \/ Head(d) # 0 THEN [d |-> d, n |-> 0]
    ELSE LET r == StripLow(Tail(d)) IN [d |-> r.d, n |-> r.n + 1]

\* the sum of non-negative decimals as [d |-> digits, e |-> exponent of d[1]]
DecSum(terms) ==
    LET nz == {k \in 1..Len(terms) : terms[k][1] # 0}
    IN  IF nz = {} THEN [d |-> <<0>>, e |-> 0]
        ELSE LET lo == CHOOSE x \in {terms[k][2] : k \in nz} :
                           \A k \in nz : x <= terms[k][2]
                 hi == CHOOSE x \in {terms[k][2] : k \in nz} :
                           \A k \in nz : x >= terms[k][2]
                 s  == StripLow(Carry(terms, lo, hi, 0, 0))
             IN  [d |-> s.d, e |-> lo + s.n]

\* -------------------------------------------------------- magnitudes
NaN == [i |-> 0, m |-> <<>>]
IsNaN(x) == x.m = <<>>


\* ------------------------------------------------ reference system
\* the band codes of the ps1 system in wavelength order (_set_filts)
Filts == <<"g", "r", "i", "z", "y">>

\* knot spacing of the reference bandpass tables
RefStep == 2

\* the reference bandpasses (bill.ps1_bands): trapezia of 80 percent
\* throughput, each overlapping its neighbour's edge
SysBand(k) ==
    [wave |-> <<8 + 4 * k, 8 + 4 * k + RefStep, 8 + 4 * k + 2 * RefStep,
                8 + 4 * k + 3 * RefStep>>,
     throughput |-> <<0, 80, 80, 0>>]

\* the target bandpasses the model is constructed with (the `band` argument)
TargetBands ==
    [gr_like  |-> [wave |-> <<9, 10, 12, 14, 16, 17>>,
                   throughput |-> <<0, 100, 100, 100, 100, 0>>],
     blue_leak |-> [wave |-> <<2, 3, 5, 7, 9>>,
                   throughput |-> <<0, 100, 100, 100, 10>>],
     g_tail   |-> [wave |-> <<9, 10, 12, 13, 14>>,
                   throughput |-> <<0, 100, 100, 10, 0>>],
     uv       |-> [wave |-> <<1, 2, 3, 4>>,
                   throughput |-> <<0, 100, 100, 0>>]]
TargetNames == {"gr_like", "blue_leak", "g_tail", "uv"}

\* scipy's interp1d(wave, throughput, bounds_error=False, fill_value=0) at x,
\* times RefStep (the knots are RefStep apart)
Interp(band, x) ==
    LET n == Len(band.wave)
    IN  IF x < band.wave[1] \/ x > band.wave[n] THEN 0
        ELSE LET k == CHOOSE j \in 1..(n - 1) :
                          band.wave[j] <= x /\ x <= band.wave[j + 1]
             IN  band.throughput[k] * (band.wave[k + 1] - x)
                 + band.throughput[k + 1] * (x - band.wave[k])

RECURSIVE Trapz2(_, _, _)
\* twice numpy's trapz(y, x = x), from knot k on
Trapz2(y, x, k) ==
    IF k >= Len(x) THEN 0
    ELSE (x[k + 1] - x[k]) * (y[k] + y[k + 1]) + Trapz2(y, x, k + 1)

\* numerator and denominator of the overlap of reference band k with the
\* target: overlap = OverlapNum / (100 * RefStep * OverlapDen)
OverlapNum(band, k) ==
    Trapz2([j \in 1..Len(band.wave) |->
               Interp(SysBand(k), band.wave[j]) * band.throughput[j]],
           band.wave, 1)
OverlapDen(band) == Trapz2(band.throughput, band.wave, 1)

\* `overlap > 0.05`
SignificantWeak(band, k) == OverlapNum(band, k) >= 0
Significant(band, k) ==
    OverlapNum(band, k) * 100 > OverlapPct * 100 * RefStep * OverlapDen(band)

\* the overlap as a decimal, to four places
OverlapDec(band, k) ==
    Norm((OverlapNum(band, k) * 100) \div (RefStep * OverlapDen(band)), -4)

\* filter_overlap's `bands`: the codes of the significant bands
OverlapBands(band) ==
    {Filts[k + 1] : k \in {j \in 0..4 : Significant(band, j)}}
\* filter_overlap's `percentage`
OverlapPercentage(band) == [k \in 1..5 |-> OverlapDec(band, k - 1)]

\* ------------------------------------------------- calibration data
\* the reference-band magnitudes of calibration star j (_load_sys_mags):
\* g-r is 0, 100 or 200 units and g-i is 0 or 100
CalStar(j) ==
    [g |-> 700 + 100 * ((j - 1) % 3), r |-> 700,
     i |-> 700 + 100 * ((j - 1) % 3) - 100 * ((j - 1) % 2),
     z |-> 700, y |-> 800]
CalMags == [j \in 1..NCal |-> CalStar(j)]

\* bill.synmag of calibration spectrum j through the target band, reddened
\* by ebv tenths of a magnitude of E(B-V)
SynMag(j, ebv) == CalStar(j).g - 40 + 10 * j + ebv * (30 + j)

\* R_load.R_val: the extinction coefficient of a reference band at colour gr
RVal(band, gr) ==
    CASE band = "g" -> 300
      [] band = "r" -> 200
      [] band = "i" -> 200
      [] band = "z" -> 100
      [] OTHER -> 100

\* --------------------------------------------- composite evaluation
\* a plausible slip: the zeropoint left out of the flux
Mag2FluxNoZP(mag) == <<1, (0 - mag) \div 100>>
\* mag2flux(mag, zp=25) = 10**(2/5*(zp-mag)), for a whole-decade magnitude
Mag2Flux(mag) == <<1, (ZP - mag) \div 100>>

\* _get_extinction: A = R_val(band) * ext, and 0 when ext is None
GetExtinction(band, hasExt, ext, star) ==
    IF hasExt THEN RVal(band, star.g - star.r) * ext ELSE 0

\* R_vector: coeff[0] + coeff[1]*x
RVector(Rc, x) == Rc[1] + Rc[2] * x

\* the exponent coeff[5] in hundredths
P100(c) == c[1] * Pow10(c[2] + 2)

\* make_composite for one star: coeff the six coefficients, filt the active
\* band codes, ext the star's extinction when hasExt, Rc the R coefficients
Composite(coeff, filt, star, hasExt, ext, Rc) ==
    LET A(b) == GetExtinction(b, hasExt, ext, star)
        g == Mag2Flux(star.g - A("g"))
        i == Mag2Flux(star.i - A("i"))
        r == IF "r" \in filt THEN Mag2Flux(star.r - A("r")) ELSE Zero
        z == IF "z" \in filt THEN Mag2Flux(star.z - A("z")) ELSE Zero
        y == IF "y" \in filt THEN Mag2Flux(star.y - A("y")) ELSE Zero
        s == DecSum(<<DecMul(coeff[1], g), DecMul(coeff[2], r),
                      DecMul(coeff[3], i), DecMul(coeff[4], z),
                      DecMul(coeff[5], y)>>)
        gr_int == (star.g - A("g")) - (star.r - A("r"))
        base == ZP - 100 * s.e - (g[2] - i[2]) * P100(coeff[6])
    IN  IF s.d = <<0>> THEN [i |-> 0, m |-> <<0>>]
        ELSE [i |-> base + (IF hasExt THEN RVector(Rc, gr_int) * ext ELSE 0),
              m |-> s.d]

\* ------------------------------------------------------- selections
RECURSIVE SetToSeq(_)
\* the members of a set of integers in increasing order
SetToSeq(S) ==
    IF S = {} THEN <<>>
    ELSE LET x == CHOOSE y \in S : \A z \in S : y <= z
         IN  <<x>> \o SetToSeq(S \ {x})

\* arr[ind] for a set ind of (1-based) positions: numpy boolean indexing
Take(arr, ind) ==
    LET idx == SetToSeq(ind) IN [k \in 1..Len(idx) |-> arr[idx[k]]]

None == <<>>

\* (colour > lims[0]) & (colour < lims[1]) over a sequence of colours
ColourInd(colour, lims) ==
    {j \in 1..Len(colour) : colour[j] > lims[1] /\ colour[j] < lims[2]}

CalGR == [j \in 1..NCal |-> CalMags[j].g - CalMags[j].r]

\* the colour limits the model is constructed with
\* <<gr_lims, gi_lims>>: no limits, g-r limits that keep some stars, g-r
\* limits that keep none, and g-i limits
LimArgs ==
    {<<None, None>>, <<<<50, 250>>, None>>, <<<<250, 350>>, None>>,
     <<None, <<-50, 150>>>>}

\* <<band, filters>>: a target bandpass with filters='auto', or with the
\* band codes to use
BandArgs ==
    {<<b, [auto |-> TRUE, bands |-> {}]>> : b \in TargetNames}
    \cup {<<"g_tail", [auto |-> FALSE, bands |-> {"r", "i"}]>>}

\* --------------------------------------------------------- fit_comp
\* _make_c0: 0.1 for every active band and 0.01 for the exponent
MakeC0(filt) ==
    [k \in 1..6 |-> IF k = 6 THEN <<1, -2>>
                    ELSE IF Filts[k] \in filt THEN <<1, -1>> ELSE Zero]

\* fit_comp's seed: the overlaps with a 0 exponent, floored below 0.01, or
\* _make_c0 when there is no sys_overlap attribute
SeedC0(hasOverlap, overlap, filt) ==
    IF hasOverlap
    THEN [k \in 1..6 |-> IF k = 6 THEN Zero
                         ELSE IF DecLess(overlap[k], <<1, -2>>) THEN Zero
                         ELSE overlap[k]]
    ELSE MakeC0(filt)

\* a plausible slip: every band bounded as an active one
MakeBdsAllActive(filt) ==
    [k \in 1..6 |-> IF k = 6 THEN <<<<-1, 1>>, <<1, 1>>>>
                    ELSE <<Zero, <<2, 0>>>>]
\* _make_bds: (0,2) for an active band, (0,1e-10) otherwise, (-10,10) last
MakeBds(filt) ==
    [k \in 1..6 |-> IF k = 6 THEN <<<<-1, 1>>, <<1, 1>>>>
                    ELSE IF Filts[k] \in filt THEN <<Zero, <<2, 0>>>>
                    ELSE <<Zero, Eps>>]

\* the optimizer keeps its iterates inside the bounds
Clip(x, bds) ==
    [k \in 1..6 |-> IF DecLess(x[k], bds[k][1]) THEN bds[k][1]
                    ELSE IF DecLess(bds[k][2], x[k]) THEN bds[k][2]
                    ELSE x[k]]

\* the points, besides its start, the optimizer tries: the projection on
\* the box of all-twos
TrialSeeds == {[k \in 1..6 |-> <<2, 0>>]}
TrialPoints(bds) == {Clip(v, bds) : v \in TrialSeeds}

\* true minus composite magnitude: the number d + 100*log10(M)
Resid(t, c) ==
    IF c.m = <<0>> THEN [d |-> 0, m |-> <<0>>] ELSE [d |-> t - c.i, m |-> c.m]

\* astropy's sigma_clip(data, sigma=3).mask for n samples: the sets of
\* rejected positions the model follows (never all of the samples)
ClipSets(n) ==
    {rej \in SUBSET (1..n) : Cardinality(rej) <= MaxClip /\ Cardinality(rej) < Max(n, 1)}


\* -------------------------------------------- fit_cubic_correction
\* the coefficient vectors the cubic fits return
CubicGrid == {<<5, 1, 0, 0>>}

\* cubic_correction: coeff[0] + coeff[1]*x + coeff[2]*x**2 + coeff[3]*x**3
CubicCorrection(c, x) == c[1] + c[2] * x + c[3] * x * x + c[4] * x * x * x

\* a plausible slip: the second clip's survivors replace the mask
CubicMaskReplace(mask, rej) == [k \in 1..Len(mask) |-> k \notin rej]
\* self.mask[mask] = False: the rejected positions are cleared, no other changes
CubicMaskUpdate(mask, rej) == [k \in 1..Len(mask) |-> mask[k] /\ k \notin rej]

\* the coefficient pairs calculate_R's fits return
RGrid == {<<3, 1>>}

\* ------------------------------------------------------------ state
VARIABLES
    pc,           \* the step of __init__ that runs next, "ready" once built
    err,          \* the exception the last operation raised, or "none"
    args,         \* the arguments __init__ was called with
    sys_filters,  \* self.sys_filters, as the set of its band codes
    sys_overlap,  \* self.sys_overlap
    gr_lims,      \* self.gr_lims
    gi_lims,      \* self.gi_lims
    cubic_corr,   \* self.cubic_corr
    gr,           \* self.gr
    mags,         \* self.mags
    coeff,        \* self.coeff
    diff,         \* self.diff
    mask,         \* self.mask
    comp,         \* self.comp
    cubic_coeff,  \* self.cubic_coeff
    R_coeff,      \* self.R_coeff
    attr,         \* per attribute: "unset" (no such attribute), "none" or "set"
    opt,          \* scipy's minimize at work inside fit_comp
    last,         \* the operation that completed or raised last
    call,         \* the arguments of the last call made on the built model
    ret,          \* what that call returned
    est           \* estimate_mag at work: its catalogue and get_extinctions' loop

fields == <<sys_filters, sys_overlap, gr_lims, gi_lims, cubic_corr, gr, mags,
            coeff, diff, mask, comp, cubic_coeff, R_coeff, attr>>
vars == <<pc, err, args, fields, opt, last, call, ret, est>>

Attrs == {"sys_overlap", "mags", "coeff", "diff", "mask", "comp",
          "cubic_coeff", "R_coeff"}

\* the constructor calls followed: every colour-limit choice with the
\* two-band target, no limits with the other targets
BandLimArgs ==
    {bl \in BandArgs \X LimArgs : bl[1][1] = "gr_like" \/ bl[2] = <<None, None>>}

ArgSet ==
    {[band |-> bl[1][1], filters |-> bl[1][2], gr_lims |-> bl[2][1],
      gi_lims |-> bl[2][2], cubic_corr |-> c, plot |-> p, calc_R |-> r] :
        bl \in BandLimArgs, c \in BOOLEAN, p \in BOOLEAN, r \in BOOLEAN}

NoCall == [mags |-> "-", ext |-> FALSE, extinction |-> FALSE, lims |-> None,
           preR |-> "-", coeff |-> None, src |-> 0, table |-> <<>>]
NoEst == [pc |-> "idle", cat |-> <<>>, ind |-> {}, ebv |-> <<>>, by |-> <<>>,
          queries |-> 0]

Idle == [pass |-> "-", x0 |-> <<>>, bds |-> <<>>, n |-> 0, best |-> <<>>]

Init ==
    /\ pc = "new"
    /\ err = "none"
    /\ args \in ArgSet
    /\ sys_filters = {}
    /\ sys_overlap = <<>>
    /\ gr_lims = None
    /\ gi_lims = None
    /\ cubic_corr = FALSE
    /\ gr = <<>>
    /\ mags = <<>>
    /\ coeff = <<>>
    /\ diff = <<>>
    /\ mask = <<>>
    /\ comp = <<>>
    /\ cubic_coeff = <<>>
    /\ R_coeff = <<>>
    /\ attr = [a \in Attrs |-> "unset"]
    /\ opt = Idle
    /\ last = "none"
    /\ call = NoCall
    /\ ret = <<>>
    /\ est = NoEst

\* the steps of __init__ after fit_comp, in order
AfterPlots == IF args.calc_R THEN "calc_R" ELSE "ready"
AfterCubic == IF args.plot THEN "plots" ELSE AfterPlots
AfterFit == IF cubic_corr THEN "cubic" ELSE AfterCubic

\* __init__ up to the call of fit_comp: the fields, filter_overlap when
\* filters is 'auto', and syn_calspec_mags
Construct ==
    /\ pc = "new"
    /\ LET band == TargetBands[args.band]
           bands == OverlapBands(band)
       IN  IF args.filters.auto /\ bands = {}
           THEN \* filter_overlap raises before it stores anything
                /\ pc' = "failed"
                /\ err' = "ValueError"
                /\ last' = "filter_overlap"
                /\ UNCHANGED fields
           ELSE /\ pc' = "fit_comp"
                /\ sys_filters' = IF args.filters.auto THEN bands
                                  ELSE args.filters.bands
                /\ sys_overlap' = IF args.filters.auto
                                  THEN OverlapPercentage(band) ELSE <<>>
                /\ gr_lims' = args.gr_lims
                /\ gi_lims' = args.gi_lims
                /\ cubic_corr' = args.cubic_corr
                /\ gr' = IF args.gr_lims # None
                         THEN Take(CalGR, ColourInd(CalGR, args.gr_lims))
                         ELSE CalGR
                /\ mags' = [j \in 1..NCal |-> SynMag(j, 0)]
                /\ attr' = [a \in Attrs |->
                              CASE a = "sys_overlap" ->
                                     IF args.filters.auto THEN "set" ELSE "unset"
                                [] a = "mags" -> "set"
                                [] a \in {"coeff", "diff", "mask", "cubic_coeff"} -> "none"
                                [] OTHER -> "unset"]
                /\ last' = "syn_calspec_mags"
                /\ UNCHANGED <<err, coeff, diff, mask, comp, cubic_coeff, R_coeff>>
    /\ UNCHANGED <<args, opt, call, ret, est>>

\* fit_comp up to its first call of minimize
FitCompStart ==
    /\ pc = "fit_comp"
    /\ pc' = "minimize"
    /\ opt' = [pass |-> "A",
               x0 |-> SeedC0(attr["sys_overlap"] = "set", sys_overlap, sys_filters),
               bds |-> MakeBds(sys_filters), n |-> 0, best |-> <<>>]
    /\ UNCHANGED <<err, args, fields, last, call, ret, est>>

\* comp_minimizer, called by the optimizer: at its start point first, then
\* at any trial point
CompMinimizer ==
    /\ pc = "minimize"
    /\ opt.n < MaxEvals
    /\ \E x \in (IF opt.n = 0 THEN {Clip(opt.x0, opt.bds)} ELSE TrialPoints(opt.bds)),
          better \in BOOLEAN :
         LET c == [j \in 1..NCal |->
                      Composite(x, sys_filters, CalMags[j], FALSE, 0, <<0, 0>>)]
             ind == IF gr_lims # None THEN ColourInd(CalGR, gr_lims)
                    ELSE 1..NCal
         IN  /\ coeff' = x
             /\ comp' = c
             /\ IF gr_lims = None /\ gi_lims # None
                THEN \* self.gr_lims[0] with gr_lims None
                     /\ pc' = "failed"
                     /\ err' = "TypeError"
                     /\ opt' = Idle
                     /\ attr' = [attr EXCEPT !["coeff"] = "set", !["comp"] = "set"]
                     /\ UNCHANGED diff
                ELSE /\ diff' = Take([j \in 1..NCal |-> Resid(mags[j], c[j])], ind)
                     /\ attr' = [attr EXCEPT !["coeff"] = "set", !["comp"] = "set",
                                            !["diff"] = "set"]
                     /\ opt' = [opt EXCEPT !.n = opt.n + 1,
                                           !.best = IF opt.n = 0 \/ better THEN x
                                                    ELSE opt.best]
                     /\ UNCHANGED <<pc, err>>
    /\ UNCHANGED <<args, sys_filters, sys_overlap, gr_lims, gi_lims, cubic_corr,
                   gr, mags, mask, cubic_coeff, R_coeff, last, call, ret, est>>

\* fit_comp between its two passes: the first minimize returns, and
\* self.mask = ~sigma_clip(self.diff, sigma=3).mask
MinimizeReturnA ==
    /\ pc = "minimize"
    /\ opt.pass = "A"
    /\ opt.n >= 1
    /\ \E rej \in ClipSets(Len(diff)) :
         mask' = [k \in 1..Len(diff) |-> k \notin rej]
    /\ attr' = [attr EXCEPT !["mask"] = "set"]
    /\ opt' = [opt EXCEPT !.pass = "B", !.x0 = opt.best, !.n = 0]
    /\ UNCHANGED <<pc, err, args, sys_filters, sys_overlap, gr_lims, gi_lims,
                   cubic_corr, gr, mags, coeff, diff, comp, cubic_coeff,
                   R_coeff, last, call, ret, est>>

\* the end of fit_comp: the second minimize returns and self.coeff = res.x;
\* print_comp follows, and changes nothing
MinimizeReturnB ==
    /\ pc = "minimize"
    /\ opt.pass = "B"
    /\ opt.n >= 1
    /\ coeff' = opt.best
    /\ opt' = Idle
    /\ pc' = AfterFit
    /\ last' = "fit_comp"
    /\ UNCHANGED <<err, args, sys_filters, sys_overlap, gr_lims, gi_lims,
                   cubic_corr, gr, mags, diff, mask, comp, cubic_coeff,
                   R_coeff, attr, call, ret, est>>

\* fit_cubic_correction: a fit, a sigma clip of diff - cubic_correction()
\* cleared out of the mask, and a second fit; print_cubic_correction follows
FitCubicCorrection ==
    /\ pc = "cubic"
    /\ \E rej \in ClipSets(Len(diff)) : mask' = CubicMaskUpdate(mask, rej)
    /\ cubic_coeff' \in CubicGrid
    /\ attr' = [attr EXCEPT !["cubic_coeff"] = "set"]
    /\ pc' = AfterCubic
    /\ last' = "fit_cubic_correction"
    /\ UNCHANGED <<err, args, sys_filters, sys_overlap, gr_lims, gi_lims,
                   cubic_corr, gr, mags, coeff, diff, comp, R_coeff, opt, call,
                   ret, est>>

\* the composite of every calibration star at the stored coefficients
OwnComposite ==
    [j \in 1..NCal |-> Composite(coeff, sys_filters, CalMags[j], FALSE, 0, <<0, 0>>)]

\* diagnostic_plots, as far as it writes the instance
DiagnosticPlots ==
    /\ pc = "plots"
    /\ LET ind == IF gr_lims # None THEN ColourInd(CalGR, gr_lims) ELSE 1..NCal
           d == Take([j \in 1..NCal |-> Resid(mags[j], OwnComposite[j])], ind)
       IN  /\ comp' = OwnComposite
           /\ diff' = d
           /\ \E rej \in ClipSets(Len(d)) :
                mask' = [k \in 1..Len(d) |-> k \notin rej]
    /\ pc' = AfterPlots
    /\ last' = "diagnostic_plots"
    /\ UNCHANGED <<err, args, sys_filters, sys_overlap, gr_lims, gi_lims,
                   cubic_corr, gr, mags, coeff, cubic_coeff, R_coeff, attr,
                   opt, call, ret, est>>

\* calculate_R, the last step of __init__ when calc_R is set
CalculateR ==
    /\ pc = "calc_R"
    /\ R_coeff' \in RGrid
    /\ attr' = [attr EXCEPT !["R_coeff"] = "set"]
    /\ pc' = "ready"
    /\ last' = "calculate_R"
    /\ UNCHANGED <<err, args, sys_filters, sys_overlap, gr_lims, gi_lims,
                   cubic_corr, gr, mags, coeff, diff, mask, comp, cubic_coeff,
                   opt, call, ret, est>>

\* ------------------------------------------------- the built model
\* star k of target catalogue v: catalogue 1 has its stars 0.1 degree apart,
\* catalogue 2 has them 5 degrees apart; ra and dec are in tenths of a degree
TargetStar(k, v) ==
    [g |-> 700 + 100 * ((k + v) % 3), r |-> 700, i |-> 700, z |-> 700,
     y |-> 800, ra |-> IF v = 1 THEN k ELSE 30 * k,
     dec |-> IF v = 1 THEN 0 ELSE 40 * k]
Catalog(v) == [k \in 1..NStars |-> TargetStar(k, v)]
CatVariants == {1, 2}

\* the E(B-V) a caller passes to make_composite
ExtArg == 1
\* the gr_lims a caller passes to estimate_mag
EstLimArgs == {None, <<50, 250>>}
\* bill.Tonry_reduce's E(B-V) estimate: not-a-number <<>> or a value
EBVResults == {<<>>, <<1>>}

\* a plausible slip: the composite is stored whatever the magnitudes are
WritesCompAlways(own) == TRUE
\* `if mags is None: self.comp = comp`
WritesComp(own) == own

\* the coeff a caller passes to make_composite: none, or weight 1 on g alone
CoeffArgs == {None, <<<<1, 0>>, Zero, Zero, Zero, Zero, Zero>>}

\* the make_composite calls followed: src 0 is the instance's own
\* magnitudes, src 1 a caller's catalogue; an extinction or a coeff is
\* passed with a catalogue
CompositeCalls ==
    {c \in [src : {0, 1}, ext : BOOLEAN, coeff : CoeffArgs] :
        c.src = 1 \/ (c.coeff = None /\ ~c.ext)}

\* `#if coeff is None:` / `coeff = self.coeff`: the coefficients
\* make_composite computes with, cf being its coeff argument
UsedCoeff(cf) == coeff

\* make_composite(coeff=..., mags=..., ext=...) on the built model; own =
\* the mags argument is None
MakeComposite ==
    /\ pc = "ready"
    /\ est.pc = "idle"
    /\ \E c0 \in CompositeCalls :
         LET src == c0.src
             hasExt == c0.ext
             cf == c0.coeff
             own == src = 0
             stars == IF own THEN CalMags ELSE Catalog(src)
         IN  /\ call' = [NoCall EXCEPT !.mags = IF own THEN "own" ELSE "given",
                                        !.ext = hasExt, !.preR = attr["R_coeff"],
                                        !.coeff = cf, !.src = src]
             /\ last' = "make_composite"
             /\ IF hasExt /\ attr["R_coeff"] = "unset"
                THEN \* `self.R_coeff is None` on an instance without R_coeff
                     /\ err' = "AttributeError"
                     /\ ret' = <<>>
                     /\ UNCHANGED fields
                ELSE IF hasExt /\ attr["R_coeff"] = "none" /\ attr["mags"] = "unset"
                THEN \* calculate_R's `self.mags is None` without mags
                     /\ err' = "AttributeError"
                     /\ ret' = <<>>
                     /\ UNCHANGED fields
                ELSE \E Rc \in (IF hasExt /\ attr["R_coeff"] = "none"
                                THEN RGrid ELSE {R_coeff}) :
                       LET c == [j \in 1..Len(stars) |->
                                    Composite(UsedCoeff(cf), sys_filters, stars[j],
                                              hasExt, ExtArg, Rc)]
                           lazy == hasExt /\ attr["R_coeff"] = "none"
                       IN  /\ err' = "none"
                           /\ R_coeff' = Rc
                           /\ mags' = IF lazy /\ attr["mags"] = "none"
                                      THEN [j \in 1..NCal |-> SynMag(j, 0)]
                                      ELSE mags
                           /\ comp' = IF WritesComp(own) THEN c ELSE comp
                           /\ attr' = [a \in Attrs |->
                                         CASE a = "R_coeff" /\ lazy -> "set"
                                           [] a = "mags" /\ lazy -> "set"
                                           [] a = "comp" /\ WritesComp(own) -> "set"
                                           [] OTHER -> attr[a]]
                           /\ ret' = IF own THEN <<>> ELSE c
                           /\ UNCHANGED <<sys_filters, sys_overlap, gr_lims,
                                          gi_lims, cubic_corr, gr, coeff, diff,
                                          mask, cubic_coeff>>
    /\ est' = NoEst
    /\ UNCHANGED <<pc, args, opt>>

\* estimate_mag's `ind`: the request's limits, else the instance's, else
\* the stars with a finite g-r
EstInd(cat, lims) ==
    LET colour == [k \in 1..Len(cat) |-> cat[k].g - cat[k].r]
    IN  IF lims # None THEN ColourInd(colour, lims)
        ELSE IF gr_lims # None THEN ColourInd(colour, gr_lims)
        ELSE 1..Len(cat)

\* a plausible slip: the results written to the first places
ExpandPacked(n, ind, c) == [k \in 1..n |-> IF k <= Len(c) THEN c[k] ELSE NaN]
\* final = nan; final[ind] = comp
Expand(n, ind, c) ==
    [k \in 1..n |-> IF k \in ind THEN c[Cardinality({j \in ind : j <= k})]
                    ELSE NaN]

\* comp -= cubic_correction(x = gr)
CubicSub(c, x) ==
    IF c.m = <<0>> THEN c ELSE [c EXCEPT !.i = @ - CubicCorrection(cubic_coeff, x)]

\* estimate_mag from its call of make_composite on: the composite of the
\* kept stars at their extinctions, less the cubic correction, re-expanded
EstimateFinal(cat, ind, ebv) ==
    LET mag2 == Take(cat, ind)
        c == [p \in 1..Len(mag2) |->
                 Composite(coeff, sys_filters, mag2[p], TRUE, ebv[p][1], R_coeff)]
        c2 == [p \in 1..Len(mag2) |->
                 IF cubic_corr THEN CubicSub(c[p], mag2[p].g - mag2[p].r)
                 ELSE c[p]]
    IN  Expand(Len(cat), ind, c2)

\* the estimate_mag calls followed: src 0 is a call without a table; limits
\* are passed with catalogue 2 and extinction=False
EstimateCalls ==
    {c \in [src : {0} \cup CatVariants, extinction : BOOLEAN, lims : EstLimArgs] :
        \/ c.src # 0 /\ c.lims = None
        \/ c.src = 0 /\ c.extinction /\ c.lims = None
        \/ c.src = 2 /\ ~c.extinction}

\* estimate_mag(mags, extinction=..., gr_lims=...) up to get_extinctions'
\* loop, and to its end when extinction is False; hasMags = a table is given
EstimateMag ==
    /\ pc = "ready"
    /\ est.pc = "idle"
    /\ \E c0 \in EstimateCalls :
         LET src == c0.src
             extinction == c0.extinction
             lims == c0.lims
             hasMags == src # 0
             cat == IF hasMags THEN Catalog(src) ELSE <<>>
             ind == EstInd(cat, lims)
             n == Cardinality(ind)
         IN  /\ call' = [NoCall EXCEPT !.mags = IF hasMags THEN "given" ELSE "none",
                                        !.extinction = extinction, !.lims = lims,
                                        !.ext = TRUE, !.preR = attr["R_coeff"]]
             /\ last' = "estimate_mag"
             /\ UNCHANGED fields
             /\ IF ~hasMags
                THEN /\ err' = "ValueError"
                     /\ ret' = <<>>
                     /\ est' = NoEst
                ELSE IF attr["R_coeff"] # "set"
                THEN \* `self.R_coeff is None`, here or in make_composite
                     /\ err' = "AttributeError"
                     /\ ret' = <<>>
                     /\ est' = [NoEst EXCEPT !.cat = cat, !.ind = ind]
                ELSE IF extinction
                THEN /\ err' = "none"
                     /\ ret' = <<>>
                     /\ est' = [pc |-> "loop", cat |-> cat, ind |-> ind,
                                ebv |-> [p \in 1..n |-> <<>>],
                                by |-> [p \in 1..n |-> 0], queries |-> 0]
                ELSE /\ err' = "none"
                     /\ est' = [NoEst EXCEPT !.cat = cat, !.ind = ind,
                                             !.ebv = [p \in 1..n |-> <<0>>],
                                             !.by = [p \in 1..n |-> 0]]
                     /\ ret' = EstimateFinal(cat, ind, [p \in 1..n |-> <<0>>])
    /\ UNCHANGED <<pc, args, opt>>

\* dist < .2*60**2 with dist = sqrt(dra**2 + ddec**2) in degrees
InRadius(a, b) ==
    (a.ra - b.ra) * (a.ra - b.ra) + (a.dec - b.dec) * (a.dec - b.dec)
        < (SizeArcsec * 10) * (SizeArcsec * 10)

\* one turn of get_extinctions' while loop: the first star without a value
\* is queried and its estimate given to every star in the radius
GetExtinctions ==
    /\ est.pc = "loop"
    /\ \E p \in 1..Len(est.ebv) : est.ebv[p] = <<>>
    /\ est.queries <= Len(est.ebv)
    /\ LET mag2 == Take(est.cat, est.ind)
           i == CHOOSE p \in 1..Len(est.ebv) :
                    est.ebv[p] = <<>> /\ \A q \in 1..(p - 1) : est.ebv[q] # <<>>
       IN  \E e \in EBVResults :
             est' = [est EXCEPT
                       !.ebv = [p \in 1..Len(est.ebv) |->
                                  IF InRadius(mag2[p], mag2[i]) THEN e ELSE est.ebv[p]],
                       !.by = [p \in 1..Len(est.ebv) |->
                                  IF InRadius(mag2[p], mag2[i]) THEN i ELSE est.by[p]],
                       !.queries = est.queries + 1]
    /\ UNCHANGED <<pc, err, args, fields, opt, last, call, ret>>

\* get_extinctions returns, and estimate_mag runs to its end
EstimateFinish ==
    /\ est.pc = "loop"
    /\ \A p \in 1..Len(est.ebv) : est.ebv[p] # <<>>
    /\ est' = [est EXCEPT !.pc = "idle"]
    /\ ret' = EstimateFinal(est.cat, est.ind, est.ebv)
    /\ UNCHANGED <<pc, err, args, fields, opt, last, call>>

\* ----------------------------------------------------------- export
\* abs(c) of a decimal
AbsDec(c) == <<IF c[1] < 0 THEN 0 - c[1] ELSE c[1], c[2]>>

\* c[abs(c) < 0.001] = 0
SmallToZero(c) ==
    [k \in 1..Len(c) |-> IF DecLess(AbsDec(c[k]), <<1, -3>>) THEN Zero ELSE c[k]]

\* save_transform(): c is self.coeff itself, so the zeroing is done on the
\* instance's array; ret is the row of coefficients written to the file
SaveTransform ==
    /\ pc = "ready"
    /\ est.pc = "idle"
    /\ coeff' = SmallToZero(coeff)
    /\ ret' = SmallToZero(coeff)
    /\ last' = "save_transform"
    /\ err' = "none"
    /\ call' = NoCall
    /\ est' = NoEst
    /\ UNCHANGED <<pc, args, sys_filters, sys_overlap, gr_lims, gi_lims,
                   cubic_corr, gr, mags, diff, mask, comp, cubic_coeff,
                   R_coeff, attr, opt>>

\* ------------------------------------------------------ persistence
\* the dictionary save_state builds from the instance
SavedState ==
    [band |-> args.band, coeff |-> coeff, system |-> "ps1", R_coeff |-> R_coeff,
     gi_lims |-> gi_lims, gr_lims |-> gr_lims, cubic_corr |-> cubic_corr,
     mag_system |-> "ab", cubic_coeff |-> cubic_coeff,
     cubic_coeff_is |-> attr["cubic_coeff"], sys_filters |-> sys_filters]

\* save_state(filename) on the built model; ret is the file it writes
SaveState ==
    /\ pc = "ready"
    /\ est.pc = "idle"
    /\ last' = "save_state"
    /\ call' = NoCall
    /\ est' = NoEst
    /\ IF attr["R_coeff"] = "unset"
       THEN \* state['R_coeff'] = self.R_coeff on an instance without R_coeff
            /\ err' = "AttributeError"
            /\ ret' = <<>>
       ELSE /\ err' = "none"
            /\ ret' = SavedState
    /\ UNCHANGED <<pc, args, fields, opt>>

\* sauron(load_state=file) on the file the last save_state wrote: the
\* instance is now the restored one, which holds the ten saved fields only
LoadState ==
    /\ pc = "ready"
    /\ last = "save_state"
    /\ err = "none"
    /\ pc' = "loaded"
    /\ last' = "load_state"
    /\ coeff' = ret.coeff
    /\ R_coeff' = ret.R_coeff
    /\ gi_lims' = ret.gi_lims
    /\ gr_lims' = ret.gr_lims
    /\ cubic_corr' = ret.cubic_corr
    /\ sys_filters' = ret.sys_filters
    /\ cubic_coeff' = ret.cubic_coeff
    /\ sys_overlap' = <<>>
    /\ gr' = <<>>
    /\ mags' = <<>>
    /\ diff' = <<>>
    /\ mask' = <<>>
    /\ comp' = <<>>
    /\ attr' = [a \in Attrs |->
                  CASE a \in {"coeff", "R_coeff"} -> "set"
                    [] a = "cubic_coeff" -> ret.cubic_coeff_is
                    [] OTHER -> "unset"]
    /\ UNCHANGED <<err, args, opt, call, ret, est>>

Next ==
    \/ Construct
    \/ FitCompStart
    \/ CompMinimizer
    \/ MinimizeReturnA
    \/ MinimizeReturnB
    \/ FitCubicCorrection
    \/ DiagnosticPlots
    \/ CalculateR
    \/ MakeComposite
    \/ EstimateMag
    \/ GetExtinctions
    \/ EstimateFinish
    \/ SaveState
    \/ LoadState
    \/ SaveTransform

Spec == Init /\ [][Next]_vars

\* ------------------------------------- the single-band restored model
\* weight 1 on g, no other weight, exponent 0
UnitG == <<<<1, 0>>, Zero, Zero, Zero, Zero, Zero>>

\* the magnitudes, in units, a caller's one-star table holds in a band
MagGrid == {600, 700, 900}
StarGrid == [g : MagGrid, r : MagGrid, i : MagGrid, z : MagGrid, y : MagGrid]

\* the instance sauron(load_state=file) builds from a file that holds the
\* coefficients UnitG with the one active band g
InitRestored ==
    /\ pc = "loaded"
    /\ err = "none"
    /\ args \in {a \in ArgSet : /\ a.band = "g_tail" /\ a.filters.auto
                                /\ ~a.cubic_corr /\ ~a.plot /\ a.calc_R}
    /\ sys_filters = {"g"}
    /\ sys_overlap = <<>>
    /\ gr_lims = None
    /\ gi_lims = None
    /\ cubic_corr = FALSE
    /\ gr = <<>>
    /\ mags = <<>>
    /\ coeff = UnitG
    /\ diff = <<>>
    /\ mask = <<>>
    /\ comp = <<>>
    /\ cubic_coeff = <<>>
    /\ R_coeff \in RGrid
    /\ attr = [a \in Attrs |->
                 CASE a \in {"coeff", "R_coeff"} -> "set"
                   [] a = "cubic_coeff" -> "none"
                   [] OTHER -> "unset"]
    /\ opt = Idle
    /\ last = "load_state"
    /\ call = NoCall
    /\ ret = <<>>
    /\ est = NoEst

\* make_composite(mags=table, ext=...) on the restored model, the table
\* holding one star
MakeCompositeTable ==
    /\ pc = "loaded"
    /\ \E star \in StarGrid, hasExt \in BOOLEAN :
         /\ call' = [NoCall EXCEPT !.mags = "given", !.ext = hasExt,
                                   !.preR = attr["R_coeff"], !.table = <<star>>]
         /\ ret' = <<Composite(UsedCoeff(None), sys_filters, star, hasExt,
                               ExtArg, R_coeff)>>
    /\ last' = "make_composite"
    /\ err' = "none"
    /\ UNCHANGED <<pc, args, fields, opt, est>>

NextRestored == MakeCompositeTable

SpecRestored == InitRestored /\ [][NextRestored]_vars

\* ----------------------------------------------------------- claims
\* the masked positions of the residual mask
Masked == {k \in 1..Len(mask) : ~mask[k]}

\* C1: the mask fit_cubic_correction leaves keeps no sample that the mask
\* left by fit_comp had dropped: every position False before the cubic
\* stage is False after it, and the mask keeps its length
C1_MaskMonotone ==
    [][pc = "cubic" =>
         /\ Len(mask') = Len(mask)
         /\ \A k \in 1..Len(mask) : mask'[k] => mask[k]]_vars

\* the cubic stage has run on a mask that fit_comp had already thinned,
\* and has dropped one more sample
C1_Witness ==
    /\ last = "fit_cubic_correction"
    /\ pc # "cubic"
    /\ Cardinality(Masked) >= 2

\* the colour limits of the constructor call keep no calibration star
EmptySelection ==
    /\ args.gr_lims # None
    /\ \A j \in 1..NCal :
         ~(CalMags[j].g - CalMags[j].r > args.gr_lims[1]
           /\ CalMags[j].g - CalMags[j].r < args.gr_lims[2])

\* C2: with colour limits that exclude every calibration star fit_comp
\* stores no coefficients and ends in an insufficient-data error
C2_EmptySelectionRaises ==
    (EmptySelection /\ pc \notin {"new", "fit_comp"}) =>
        /\ attr["coeff"] # "set"
        /\ pc # "minimize" => err = "InsufficientDataError"

\* C3: make_composite called with an extinction on a model without fitted
\* extinction coefficients fits them first and returns without an error
C3_LazyFitOnDemand ==
    (last = "make_composite" /\ call.ext /\ call.preR # "set") =>
        /\ err = "none"
        /\ attr["R_coeff"] = "set"

\* C4: a make_composite call with the caller's magnitudes leaves every
\* field of the instance as it was, with or without an extinction; a call
\* on the instance's own magnitudes changes no field but comp
C4_CompositeFrame ==
    [][/\ (last' = "make_composite" /\ call'.mags = "given") =>
              fields' = fields
       /\ (last' = "make_composite" /\ call'.mags = "own") =>
              /\ <<sys_filters, sys_overlap, gr_lims, gi_lims, cubic_corr, gr,
                   mags, coeff, diff, mask, cubic_coeff, R_coeff>>'
                   = <<sys_filters, sys_overlap, gr_lims, gi_lims, cubic_corr,
                       gr, mags, coeff, diff, mask, cubic_coeff, R_coeff>>
              /\ \A a \in Attrs \ {"comp"} : attr'[a] = attr[a]]_vars

\* make_composite has returned the composites of a caller's catalogue at
\* an extinction, on an instance that holds a composite of its own
C4_Witness ==
    /\ last = "make_composite"
    /\ call.mags = "given"
    /\ call.ext
    /\ err = "none"
    /\ Len(ret) = NStars
    /\ attr["comp"] = "set"
    /\ Len(comp) = NCal

\* C5: a model constructed with g-i limits and no g-r limits is fitted
\* without an error
C5_GiLimsPipeline ==
    (args.gi_lims # None /\ args.gr_lims = None) =>
        /\ err = "none"
        /\ pc # "failed"

\* C6: once fit_comp has set the coefficients, the weight of every band
\* outside sys_filters lies in [0, 1e-10]; the optimizer works inside the
\* bounds [0,2] (active), [0,1e-10] (inactive) and [-10,10] (exponent)
C6_InactiveBandsSuppressed ==
    /\ attr["coeff"] = "set" =>
          \A k \in 1..5 :
             Filts[k] \notin sys_filters =>
                /\ DecLeq(<<0, 0>>, coeff[k])
                /\ DecLeq(coeff[k], <<1, -10>>)
    /\ pc = "minimize" =>
          \A k \in 1..6 :
             opt.bds[k] = IF k = 6 THEN <<<<-1, 1>>, <<1, 1>>>>
                          ELSE IF Filts[k] \in sys_filters
                          THEN <<<<0, 0>>, <<2, 0>>>>
                          ELSE <<<<0, 0>>, <<1, -10>>>>

\* fit_comp has returned coefficients that sit on the upper bound of an
\* inactive band and of an active one
C6_Witness ==
    /\ last = "fit_comp"
    /\ \E k \in 1..5 : Filts[k] \notin sys_filters /\ coeff[k] = <<1, -10>>
    /\ \E k \in 1..5 : Filts[k] \in sys_filters /\ coeff[k] = <<2, 0>>

\* no reference band overlaps the target by more than 5 percent
NoBandClears(band) ==
    \A k \in 0..(Len(Filts) - 1) :
       OverlapNum(band, k) * 100 <= 5 * 100 * RefStep * OverlapDen(band)

\* C7: constructed with filters='auto' on a target that no reference band
\* overlaps significantly, the model fails with filter_overlap's error
\* and holds neither a non-empty band set nor an overlap array
C7_NoOverlapRaises ==
    (args.filters.auto /\ NoBandClears(TargetBands[args.band]) /\ pc # "new") =>
        /\ pc = "failed"
        /\ err = "ValueError"
        /\ last = "filter_overlap"
        /\ sys_filters = {}
        /\ attr["sys_overlap"] = "unset"
        /\ sys_overlap = <<>>

\* the constructor has failed on a target disjoint from every reference
\* band
C7_Witness ==
    /\ pc = "failed"
    /\ err = "ValueError"
    /\ args.band = "uv"
    /\ \A k \in 0..(Len(Filts) - 1) : OverlapNum(TargetBands["uv"], k) = 0

\* the colour limits in force for an estimate_mag call
EstLims == IF call.lims # None THEN call.lims ELSE gr_lims
\* star k of the catalogue passes the colour filter
EstKept(k) ==
    \/ EstLims = None
    \/ /\ est.cat[k].g - est.cat[k].r > EstLims[1]
       /\ est.cat[k].g - est.cat[k].r < EstLims[2]
\* the place of star k among the stars that pass
EstRank(k) == Cardinality({j \in 1..k : EstKept(j)})
\* the composite of star k at its extinction, cubic correction applied
EstStar(k) ==
    LET c == Composite(coeff, sys_filters, est.cat[k], TRUE,
                       est.ebv[EstRank(k)][1], R_coeff)
    IN  IF cubic_corr /\ c.m # <<0>>
        THEN [c EXCEPT !.i = @ - CubicCorrection(cubic_coeff,
                                                 est.cat[k].g - est.cat[k].r)]
        ELSE c

\* C8: the array estimate_mag returns has one entry for every star of the
\* catalogue it was given: not-a-number for a star the colour filter
\* removes, the star's own composite magnitude for a star it keeps
C8_OriginalIndexSpace ==
    (last = "estimate_mag" /\ err = "none" /\ est.pc = "idle") =>
        /\ Len(ret) = Len(est.cat)
        /\ \A k \in 1..Len(est.cat) :
              IF EstKept(k) THEN ret[k] = EstStar(k) ELSE IsNaN(ret[k])

\* estimate_mag has returned for a catalogue whose first star the filter
\* removes and whose second star it keeps
C8_Witness ==
    /\ last = "estimate_mag"
    /\ err = "none"
    /\ est.pc = "idle"
    /\ Len(ret) = NStars
    /\ ~EstKept(1)
    /\ EstKept(2)
    /\ IsNaN(ret[1])
    /\ ~IsNaN(ret[2])

\* C9: get_extinctions makes no more queries than it has stars, and when
\* it has returned every star has a value
C9_ExtinctionsTerminate ==
    /\ est.queries <= Len(est.ebv)
    /\ (last = "estimate_mag" /\ est.pc = "idle") =>
          \A p \in 1..Len(est.ebv) : est.ebv[p] # <<>>

\* C10: a star holds the estimate of a query only when it lies within 0.2
\* degrees of the queried star
C10_WithinRadius ==
    \A p \in 1..Len(est.by) :
       est.by[p] # 0 =>
          LET mag2 == Take(est.cat, est.ind)
              dra == mag2[p].ra - mag2[est.by[p]].ra
              ddec == mag2[p].dec - mag2[est.by[p]].dec
          IN  dra * dra + ddec * ddec <= 2 * 2

\* C11: save_state succeeds on every model the constructor builds, and the
\* model restored from the file holds the saved values of coeff, R_coeff,
\* gi_lims, gr_lims, cubic_corr, sys_filters and cubic_coeff (band, system
\* and mag_system are those of the call), no fit stage having run
C11_PersistenceRoundTrip ==
    /\ last = "save_state" =>
          /\ err = "none"
          /\ ret = SavedState
    /\ last = "load_state" =>
          /\ ret.band = args.band
          /\ <<coeff, R_coeff, gi_lims, gr_lims, cubic_corr, sys_filters,
               cubic_coeff>>
               = <<ret.coeff, ret.R_coeff, ret.gi_lims, ret.gr_lims,
                   ret.cubic_corr, ret.sys_filters, ret.cubic_coeff>>
          /\ opt = Idle
          /\ attr["diff"] = "unset" /\ attr["mask"] = "unset"

\* C12: a make_composite call that is given a coeff argument returns the
\* composite of the caller's stars at that coefficient vector
C12_CallerCoefficients ==
    (last = "make_composite" /\ err = "none" /\ call.mags = "given"
       /\ call.coeff # None) =>
        ret = [j \in 1..NStars |->
                  Composite(call.coeff, sys_filters, Catalog(call.src)[j],
                            call.ext, ExtArg, R_coeff)]

\* C13: with g the one active band, coefficients (1,0,0,0,0,0) and no
\* extinction, the composite make_composite returns for a star is the
\* star's g magnitude, whatever its magnitudes in the other bands
C13_CompositeIdentity ==
    (last = "make_composite" /\ call.table # <<>> /\ ~call.ext
       /\ sys_filters = {"g"} /\ coeff = UnitG) =>
        ret = <<[i |-> call.table[1].g, m |-> <<1>>]>>

\* the composite of a star whose g differs from its other magnitudes has
\* been returned
C13_Witness ==
    /\ last = "make_composite"
    /\ ~call.ext
    /\ coeff = UnitG
    /\ call.table # <<>>
    /\ call.table[1].g = 900
    /\ call.table[1].i = 600
    /\ call.table[1].r = 700
    /\ ret = <<[i |-> 900, m |-> <<1>>]>>

\* the residuals of the selected calibration stars at the coefficients c
ResidualsAt(c) ==
    LET ind == IF gr_lims # None THEN ColourInd(CalGR, gr_lims) ELSE 1..NCal
    IN  Take([j \in 1..NCal |->
                 Resid(mags[j], Composite(c, sys_filters, CalMags[j], FALSE,
                                          0, <<0, 0>>))], ind)

\* C14: the residuals the mask is clipped from are those of the
\* coefficients the first pass returned, and the residuals fit_comp leaves
\* are those of the coefficients it stores
C14_ResidualsOfReturned ==
    /\ (pc = "minimize" /\ opt.pass = "B" /\ opt.n = 0) =>
          diff = ResidualsAt(opt.x0)
    /\ last = "fit_comp" => diff = ResidualsAt(coeff)

\* C15: once the fit stages of the constructor are over, no operation on
\* the model changes the residual mask
C15_MaskFrame ==
    [][(pc \in {"plots", "calc_R", "ready"} /\ pc' \in {"plots", "calc_R", "ready"})
          => mask' = mask]_vars

\* C16: a save_transform call leaves the coefficient vector of the model
\* as it was
C16_TransformReadOnly ==
    [][last' = "save_transform" => coeff' = coeff]_vars
====
